---------------------------- MODULE Spec2Model ----------------------------
(***************************************************************************)
(* A model of tardis/io/configuration/config_reader.py:                    *)
(*   - ConfigurationNameSpace, the recursive dict subclass, on a heap of   *)
(*     Python objects (namespaces, plain dicts, lists), so that sharing    *)
(*     between a namespace and its copy is visible;                        *)
(*   - Configuration.from_config_dict and the section validators, on the   *)
(*     document (a nested mapping) they read.                              *)
(***************************************************************************)
EXTENDS Integers, Sequences, FiniteSets, TLC

VARIABLES
    heap,   \* the Python objects created so far: object id -> object
    root,   \* reference to the namespace under test (None: not constructed)
    copy,   \* reference to the namespace deepcopy() returned (None: none yet)
    call,   \* the last call: its name, arguments, the exception raised ("" if none), the value returned
    nops    \* number of calls made on the namespaces since the construction

vars == <<heap, root, copy, call, nops>>

-----------------------------------------------------------------------------
(* Bounds of the model.                                                    *)

\* calls explored after a construction
MaxOps == 2
\* number of fields in which an input document may deviate from the base document
MaxDev == 1

-----------------------------------------------------------------------------
(* Python values.  A scalar is a record [kind, n, s]; a container is a     *)
(* reference to a heap object.                                             *)

None == [kind |-> "none", n |-> 0, s |-> ""]
Num(i) == [kind |-> "num", n |-> i, s |-> ""]
Str(t) == [kind |-> "str", n |-> 0, s |-> t]
Bool(b) == [kind |-> "bool", n |-> IF b THEN 1 ELSE 0, s |-> ""]
\* astropy Quantity: magnitude n in unit s
Qty(i, unit) == [kind |-> "qty", n |-> i, s |-> unit]
Ref(id) == [kind |-> "ref", id |-> id]

IsScalar(v) == v.kind \in {"none", "num", "str", "bool", "qty"}

\* Literals (values before they are objects): a scalar, or one of
Dict(f) == [kind |-> "dict", map |-> f]
NS(f) == [kind |-> "ns", map |-> f]
List(q) == [kind |-> "list", elems |-> q]
EmptyMap == <<>>

\* Heap objects: a ConfigurationNameSpace ("ns"), a plain dict or a list.
Obj(kind, map, elems) == [kind |-> kind, map |-> map, elems |-> elems]

\* Object ids.  The containers of the literal that call number a evaluates
\* are named by their place p in it; the namespace that wraps a plain dict
\* is named after the dict (every written value is a fresh literal, so a
\* dict is wrapped at most once).
Id(a, p, w) == [a |-> a, p |-> p, w |-> w]
NsOf(id) == [id EXCEPT !.w = "ns"]
CsvyModelOf(id) == [id EXCEPT !.w = "csvy"]

IsObj(h, v, kind) == v.kind = "ref" /\ h[v.id].kind = kind
Keys(h, id) == DOMAIN h[id].map

\* the segments that name the elements of a list, in order
ItemNames == <<"item0", "item1", "item2", "item3">>

\* Evaluating a literal: every container of it becomes a fresh object.
ChildKeys(t) ==
    IF t.kind = "list" THEN {ItemNames[i] : i \in 1..Len(t.elems)} ELSE DOMAIN t.map
Child(t, k) ==
    IF t.kind = "list"
    THEN t.elems[CHOOSE i \in 1..Len(t.elems) : ItemNames[i] = k]
    ELSE t.map[k]
RECURSIVE ContainerPaths(_)
ContainerPaths(t) ==
    IF IsScalar(t) THEN {}
    ELSE {<<>>} \cup UNION {{<<k>> \o q : q \in ContainerPaths(Child(t, k))} :
                             k \in ChildKeys(t)}
RECURSIVE At(_, _)
At(t, p) == IF p = <<>> THEN t ELSE At(Child(t, Head(p)), Tail(p))
ValAt(a, t, p) ==
    IF IsScalar(At(t, p)) THEN At(t, p) ELSE Ref(Id(a, p, "raw"))
ObjAt(a, t, p) ==
    IF At(t, p).kind = "list"
    THEN Obj("list", EmptyMap,
             [i \in 1..Len(At(t, p).elems) |-> ValAt(a, t, Append(p, ItemNames[i]))])
    ELSE Obj(At(t, p).kind,
             [k \in DOMAIN At(t, p).map |-> ValAt(a, t, Append(p, k))], <<>>)
AllocRaw(a, t) ==
    [objs |-> [i \in {Id(a, p, "raw") : p \in ContainerPaths(t)} |-> ObjAt(a, t, i.p)],
     val |-> ValAt(a, t, <<>>)]

\* The literal a value denotes: the object graph below it, unfolded.
RECURSIVE TreeOf(_, _)
TreeOf(h, v) ==
    IF v.kind # "ref" THEN v
    ELSE IF h[v.id].kind = "list"
    THEN List([i \in 1..Len(h[v.id].elems) |-> TreeOf(h, h[v.id].elems[i])])
    ELSE [kind |-> h[v.id].kind,
          map |-> [k \in DOMAIN h[v.id].map |-> TreeOf(h, h[v.id].map[k])]]

-----------------------------------------------------------------------------
(* astropy units.                                                          *)

Dimension(unit) ==
    CASE unit \in {"cm", "mm", "angstrom"} -> "length"
      [] unit \in {"s", "day"} -> "time"
      [] unit = "K" -> "temperature"
      [] unit = "km/s" -> "velocity"
      [] unit = "g/cm^3" -> "density"
      [] OTHER -> "dimensionless"

\* size of a unit in the smallest unit of its dimension that the model uses
Scale(unit) ==
    CASE unit = "cm" -> 100000000
      [] unit = "mm" -> 10000000
      [] unit = "day" -> 86400
      [] OTHER -> 1

\* hasattr(value, "unit").  Keys named like Python attributes ("unit") are
\* outside the key universe of the model, so only a Quantity has one.
HasUnit(v) == v.kind = "qty"

\* u.Quantity(value, unit): a Quantity is converted (or the conversion
\* fails), a bare number is taken to be in `unit`; the containers and
\* strings of the model are no numbers.  The magnitudes the model feeds in
\* convert exactly.
Quantity(v, unit) ==
    IF v.kind = "qty"
    THEN IF Dimension(v.s) = Dimension(unit)
         THEN [err |-> "", val |-> Qty((v.n * Scale(v.s)) \div Scale(unit), unit)]
         ELSE [err |-> "UnitConversionError", val |-> None]
    ELSE IF v.kind \in {"num", "bool"}
    THEN [err |-> "", val |-> Qty(v.n, unit)]
    ELSE [err |-> "TypeError: Quantity", val |-> None]

-----------------------------------------------------------------------------
(* Exceptions, named by their Python type and the raise site.              *)

ErrBoth == "ValueError: Cannot specify both model and csvy_model in main config file."
ErrLoad == "OSError: load_yaml_from_csvy"
ErrSchema == "ValidationError: config_validator.validate_dict"

-----------------------------------------------------------------------------
(* ConfigurationNameSpace.                                                 *)

\* What load_yaml_from_csvy returns for the path of a csvy_model reference:
\* the YAML header of the CSVY file, a mapping of scalars; or the file
\* cannot be read.
CsvyUnreadable == [kind |-> "unreadable", map |-> EmptyMap]
load_yaml_from_csvy(dirname, fname, csvy) ==
    IF csvy.kind = "unreadable"
    THEN [err |-> ErrLoad, yml |-> EmptyMap]
    ELSE [err |-> "", yml |-> csvy.map]

\* hasattr(self, name), through __getattr__ (lines 115-119), for a name that
\* is no attribute of the class
hasattr(h, self, name) == name \in Keys(h, self)

\* a store that wraps nothing
Unwrapped(h, value) == value
\* lines 102-105: what __setitem__ stores for a value: a plain dict wrapped
\* in a new namespace, anything else as it is
Wrapped(h, value) ==
    IF IsObj(h, value, "dict") THEN Ref(NsOf(value.id)) ELSE value

\* the plain dicts that ConfigurationNameSpace(src) wraps: src and, through
\* the __setitem__ of each key, the dicts stored directly under a key
RECURSIVE DictsBelow(_, _)
DictsBelow(h, src) ==
    {src} \cup UNION {DictsBelow(h, h[src].map[k].id) :
                      k \in {k \in Keys(h, src) : IsObj(h, h[src].map[k], "dict")}}

\* lines 84-95: the exception __init__ raises after its keys are set
OwnInitError(h, src, csvy) ==
    IF hasattr(h, src, "csvy_model") /\ hasattr(h, src, "model") THEN ErrBoth
    ELSE IF ~hasattr(h, src, "csvy_model") THEN ""
    ELSE IF ~hasattr(h, src, "config_dirname") THEN "AttributeError: config_dirname"
    ELSE IF h[src].map["config_dirname"].kind # "str" \/ h[src].map["csvy_model"].kind # "str"
    THEN "TypeError: Path"
    ELSE load_yaml_from_csvy(h[src].map["config_dirname"].s,
                             h[src].map["csvy_model"].s, csvy).err

\* the exception ConfigurationNameSpace(src) raises: that of a nested
\* namespace, raised while the keys are set, comes first
RECURSIVE InitError(_, _, _)
InitError(h, src, csvy) ==
    LET below == {InitError(h, h[src].map[k].id, csvy) :
                  k \in {k \in Keys(h, src) : IsObj(h, h[src].map[k], "dict")}} \ {""}
    IN IF below # {} THEN CHOOSE e \in below : TRUE
       ELSE OwnInitError(h, src, csvy)

\* lines 88-99: the model section made for a csvy_model reference; each of
\* its values is set a second time, on itself
CsvyModel(csvy) ==
    LET yml == load_yaml_from_csvy("", "", csvy).yml
        model == [k \in DOMAIN yml \cap {"v_inner_boundary", "v_outer_boundary"} |-> yml[k]]
    IN [k \in DOMAIN model |->
           IF HasUnit(model[k]) THEN Quantity(model[k], model[k].s).val ELSE model[k]]

\* a namespace that gets no model section for its csvy_model reference
PlainNsObject(h, src, csvy) ==
    Obj("ns", [k \in Keys(h, src) |-> Wrapped(h, h[src].map[k])], <<>>)
\* the namespace made from the plain dict src, lines 79-80 and 88-99
NsObject(h, src, csvy) ==
    Obj("ns",
        (IF hasattr(h, src, "csvy_model")
         THEN "model" :> Ref(CsvyModelOf(src)) ELSE EmptyMap)
        @@ [k \in Keys(h, src) |-> Wrapped(h, h[src].map[k])],
        <<>>)

\* ConfigurationNameSpace.__init__(value), lines 75-99, for a value on the
\* heap: the heap with the new namespaces and the reference to the new
\* namespace, or the exception raised.  The calls of the model pass a plain
\* dict or, by mistake, no mapping at all.
ns_init(h, value, csvy) ==
    IF ~IsObj(h, value, "dict")
    THEN [h |-> h, err |-> "TypeError: expected dict", val |-> None]
    ELSE IF InitError(h, value.id, csvy) # ""
    THEN [h |-> h, err |-> InitError(h, value.id, csvy), val |-> None]
    ELSE [h |-> [i \in {NsOf(j) : j \in DictsBelow(h, value.id)} |->
                    NsObject(h, [i EXCEPT !.w = "raw"], csvy)]
                @@ [i \in {CsvyModelOf(j) : j \in {j \in DictsBelow(h, value.id) :
                                                     hasattr(h, j, "csvy_model")}} |->
                    Obj("ns", CsvyModel(csvy), <<>>)]
                @@ h,
          err |-> "",
          val |-> Ref(NsOf(value.id))]

\* dict.__setitem__(self, key, value)
dict_setitem(h, self, key, value) ==
    [h EXCEPT ![self].map = (key :> value) @@ h[self].map]

\* an item write that stores the value before it converts it
StoreThenCoerce(h, self, key, value, csvy) ==
    IF key \in Keys(h, self) /\ HasUnit(h[self].map[key])
          /\ Quantity(value, h[self].map[key].s).err # ""
    THEN [h |-> dict_setitem(h, self, key, value),
          err |-> Quantity(value, h[self].map[key].s).err]
    ELSE [h |-> dict_setitem(h, self, key, value), err |-> ""]
\* __setitem__ (lines 101-110), which is __setattr__ too (line 121): the
\* heap after it, and the exception raised
setitem(h, self, key, value, csvy) ==
    LET w == IF IsObj(h, value, "dict") THEN ns_init(h, value, csvy)
             ELSE [h |-> h, err |-> "", val |-> value]
    IN IF w.err # "" THEN [h |-> w.h, err |-> w.err]
       ELSE IF key \in Keys(w.h, self) /\ HasUnit(w.h[self].map[key])
       THEN LET q == Quantity(w.val, w.h[self].map[key].s)
            IN IF q.err # "" THEN [h |-> w.h, err |-> q.err]
               ELSE [h |-> dict_setitem(w.h, self, key, q.val), err |-> ""]
       ELSE [h |-> dict_setitem(w.h, self, key, w.val), err |-> ""]

-----------------------------------------------------------------------------
(* Paths.  "a.b.item2" is the sequence <<"a", "b", "item2">>, which is     *)
(* what config_item_string.split(".") makes of it.                        *)

\* seg.startswith("item"), for the segments of the model
startswith_item(seg) ==
    seg \in {ItemNames[i] : i \in 1..Len(ItemNames)} \cup {"items"}

\* int(seg.replace("item", ""))
int_of_item(seg) ==
    IF \E i \in 1..Len(ItemNames) : ItemNames[i] = seg
    THEN [err |-> "", n |-> (CHOOSE i \in 1..Len(ItemNames) : ItemNames[i] = seg) - 1]
    ELSE [err |-> "ValueError: invalid literal for int()", n |-> 0]

\* the characters of the strings the model stores
StrChars(t) ==
    CASE t = "ab" -> <<"a", "b">>
      [] t = "damped" -> <<"d", "a", "m", "p", "e", "d">>
      [] t = "custom" -> <<"c", "u", "s", "t", "o", "m">>
      [] t = "specific" -> <<"s", "p", "e", "c", "i", "f", "i", "c">>
      [] t = "file" -> <<"f", "i", "l", "e">>
      [] t = "exponential" -> <<"e", "x", "p", "o", "n", "e", "n", "t", "i", "a", "l">>
      [] t = "power_law" -> <<"p", "o", "w", "e", "r", "_", "l", "a", "w">>
      [] t = "uniform" -> <<"u", "n", "i", "f", "o", "r", "m">>
      [] t = "virtual" -> <<"v", "i", "r", "t", "u", "a", "l">>
      [] t = "integrated" -> <<"i", "n", "t", "e", "g", "r", "a", "t", "e", "d">>
      [] t = "m.csvy" -> <<"m", ".", "c", "s", "v", "y">>
      [] t = "" -> <<>>

\* self[key] of a namespace
getitem(h, self, key) ==
    IF key \in Keys(h, self)
    THEN [err |-> "", val |-> h[self].map[key]]
    ELSE [err |-> "KeyError", val |-> None]

\* an index that counts from one
OneBased(i, len) == IF 1 <= i /\ i <= len THEN i ELSE 0
\* Python's index i into a sequence of length len: the 1-based position, 0
\* if out of range
Position(i, len) ==
    IF 0 <= i /\ i < len THEN i + 1
    ELSE IF i < 0 /\ -len <= i THEN len + i + 1
    ELSE 0

\* container[i] for an integer i
subscript(h, c, i) ==
    IF IsObj(h, c, "list")
    THEN IF Position(i, Len(h[c.id].elems)) = 0
         THEN [err |-> "IndexError", val |-> None]
         ELSE [err |-> "", val |-> h[c.id].elems[Position(i, Len(h[c.id].elems))]]
    ELSE IF c.kind = "ref"
    THEN [err |-> "KeyError", val |-> None]
    ELSE IF c.kind = "str"
    THEN IF Position(i, Len(StrChars(c.s))) = 0
         THEN [err |-> "IndexError", val |-> None]
         ELSE [err |-> "", val |-> Str(StrChars(c.s)[Position(i, Len(StrChars(c.s)))])]
    ELSE [err |-> "TypeError: not subscriptable", val |-> None]

\* container[i] = value, after container[i] was read
store_subscript(h, c, i, value) ==
    IF IsObj(h, c, "list")
    THEN [h |-> [h EXCEPT ![c.id].elems[Position(i, Len(h[c.id].elems))] = value],
          err |-> ""]
    ELSE [h |-> h, err |-> "TypeError: item assignment"]

\* lines 147-149: self[path[1]][int(path[2].replace("item", ""))]
GetElement(h, self, path) ==
    IF getitem(h, self, path[1]).err # ""
    THEN getitem(h, self, path[1])
    ELSE IF int_of_item(path[2]).err # ""
    THEN [err |-> int_of_item(path[2]).err, val |-> None]
    ELSE subscript(h, getitem(h, self, path[1]).val, int_of_item(path[2]).n)

\* get_config_item, lines 126-154
RECURSIVE get_config_item(_, _, _)
get_config_item(h, self, path) ==
    IF Len(path) = 1
    THEN getitem(h, self, path[1])
    ELSE IF Len(path) = 2 /\ startswith_item(path[2])
    THEN GetElement(h, self, path)
    ELSE IF getitem(h, self, path[1]).err # ""
    THEN getitem(h, self, path[1])
    ELSE IF IsObj(h, getitem(h, self, path[1]).val, "ns")
    THEN get_config_item(h, getitem(h, self, path[1]).val.id, Tail(path))
    ELSE [err |-> "AttributeError: get_config_item", val |-> None]

\* an element write that stores the value in the unit it comes in
StoreAsGiven(h, self, path, value) ==
    IF GetElement(h, self, path).err # ""
    THEN [h |-> h, err |-> GetElement(h, self, path).err]
    ELSE store_subscript(h, getitem(h, self, path[1]).val, int_of_item(path[2]).n, value)
\* lines 173-183: the element is read, then written
SetElement(h, self, path, value) ==
    LET cur == GetElement(h, self, path)
        c == getitem(h, self, path[1]).val
        i == int_of_item(path[2]).n
    IN IF cur.err # "" THEN [h |-> h, err |-> cur.err]
       ELSE IF HasUnit(cur.val)
       THEN IF Quantity(value, cur.val.s).err # ""
            THEN [h |-> h, err |-> Quantity(value, cur.val.s).err]
            ELSE store_subscript(h, c, i, Quantity(value, cur.val.s).val)
       ELSE store_subscript(h, c, i, value)

\* set_config_item, lines 156-188
RECURSIVE set_config_item(_, _, _, _, _)
set_config_item(h, self, path, value, csvy) ==
    IF Len(path) = 1
    THEN setitem(h, self, path[1], value, csvy)
    ELSE IF Len(path) = 2 /\ startswith_item(path[2])
    THEN SetElement(h, self, path, value)
    ELSE IF getitem(h, self, path[1]).err # ""
    THEN [h |-> h, err |-> getitem(h, self, path[1]).err]
    ELSE IF IsObj(h, getitem(h, self, path[1]).val, "ns")
    THEN set_config_item(h, getitem(h, self, path[1]).val.id, Tail(path), value, csvy)
    ELSE [h |-> h, err |-> "AttributeError: set_config_item"]

\* deepcopy, lines 190-191: ConfigurationNameSpace(copy.deepcopy(dict(self)));
\* a is the number of the call, which names the objects of the copy
deepcopy(h, self, a, csvy) ==
    LET c == AllocRaw(a, Dict(TreeOf(h, Ref(self)).map))
    IN ns_init(c.objs @@ h, c.val, csvy)

-----------------------------------------------------------------------------
(* Configuration: the section validators, on the nested mapping they are   *)
(* given.  A mapping is the literal Dict(f); the sections and fields the   *)
(* schema requires are present in every document of the model.             *)

Has(d, k) == k \in DOMAIN d.map
Put(d, k, v) == Dict((k :> v) @@ d.map)
\* d.get(k, None)
dict_get(d, k) == IF Has(d, k) THEN d.map[k] ELSE None

ErrCustom == "NotImplementedError: convergence_strategy is set to custom"
ErrConvType == "ValueError: convergence_strategy is not damped or custom"
ErrStopVelocity == "ValueError: Stop Velocity Cannot Be Less than Start Velocity."
ErrOuterBoundary == "ValueError: Outer Boundary Velocity Cannot Be Less than Inner Boundary Velocity."
ErrRho0 == "ValueError: Density Specified is Invalid"
ErrV0 == "ValueError: Velocity Specified is Invalid"
ErrTime0 == "ValueError: Time Specified is Invalid"
ErrDensityValue == "ValueError: Density Value Specified is Invalid"
ErrTimeExplosion == "ValueError: Time Of Explosion is Invalid"
ErrLuminosity == "ValueError: Integral Limits for Luminosity Wavelength are Invalid, Start Limit > End Limit"
ErrTInner == "ValueError: Initial Temperature of Inner Boundary Black Body is Invalid"
ErrTRad == "ValueError: Initial Radiative Temperature is Invalid"
ErrSpectrum == "ValueError: Start Value of Spectrum Cannot be Greater than Stop Value."
ErrIntegrated == "NotImplementedError: The spectrum method is set to integrated and enable_full_relativity to True"

\* lines 433, 435
convergence_parameters == <<"damping_constant", "threshold", "type">>
convergence_variables == <<"t_inner", "t_rad", "w", "v_inner_boundary">>

\* an inheritance that overwrites what the variable's section holds
AlwaysInherit(cs, var, param) ==
    IF Has(cs, param)
    THEN Put(cs, var, Put(cs.map[var], param, cs.map[param]))
    ELSE cs
\* no inheritance at all
NeverInherit(cs, var, param) == cs
\* lines 442-446: one parameter of one variable's section
InheritParam(cs, var, param) ==
    IF dict_get(cs.map[var], param) = None
    THEN IF Has(cs, param)
         THEN Put(cs, var, Put(cs.map[var], param, cs.map[param]))
         ELSE cs
    ELSE cs

RECURSIVE InheritParams(_, _, _)
InheritParams(cs, var, i) ==
    IF i > Len(convergence_parameters) THEN cs
    ELSE InheritParams(InheritParam(cs, var, convergence_parameters[i]), var, i + 1)

\* lines 423-448; the section of a variable, when given, is a mapping
RECURSIVE ParseVariables(_, _)
ParseVariables(cs, j) ==
    IF j > Len(convergence_variables) THEN cs
    ELSE LET var == convergence_variables[j]
             c0 == IF Has(cs, var) THEN cs ELSE Put(cs, var, Dict(EmptyMap))
         IN ParseVariables(InheritParams(c0, var, 1), j + 1)
parse_convergence_section(convergence_section_dict) ==
    ParseVariables(convergence_section_dict, 1)

\* lines 400-421: the section with its convergence_strategy normalized, or
\* the exception
validate_montecarlo_section(montecarlo_section) ==
    LET type == montecarlo_section.map["convergence_strategy"].map["type"]
    IN IF type = Str("damped")
       THEN [err |-> "",
             val |-> Put(montecarlo_section, "convergence_strategy",
                         parse_convergence_section(
                             montecarlo_section.map["convergence_strategy"]))]
       ELSE IF type = Str("custom")
       THEN [err |-> ErrCustom, val |-> montecarlo_section]
       ELSE [err |-> ErrConvType, val |-> montecarlo_section]

\* lines 374-377, 385-388, 395-398
Time0Check(density) ==
    IF Has(density, "time_0") /\ density.map["time_0"].n <= 0 THEN ErrTime0 ELSE ""

\* lines 366-398
DensityCheck(density) ==
    IF density.map["type"] \in {Str("exponential"), Str("power_law")}
    THEN IF density.map["rho_0"].n <= 0 THEN ErrRho0
         ELSE IF density.map["v_0"].n <= 0 THEN ErrV0
         ELSE Time0Check(density)
    ELSE IF density.map["type"] = Str("uniform")
    THEN IF density.map["value"].n <= 0 THEN ErrDensityValue
         ELSE Time0Check(density)
    ELSE ""

\* lines 339-398: "" or the exception
validate_model_section(model_section) ==
    LET structure == model_section.map["structure"]
        first == IF structure.map["type"] = Str("specific")
                 THEN IF structure.map["velocity"].map["stop"].n
                           < structure.map["velocity"].map["start"].n
                      THEN ErrStopVelocity ELSE ""
                 ELSE IF structure.map["type"] = Str("file")
                 THEN IF structure.map["v_outer_boundary"].n
                           < structure.map["v_inner_boundary"].n
                      THEN ErrOuterBoundary ELSE ""
                 ELSE ""
    IN IF first # "" THEN first
       ELSE IF Has(structure, "density") THEN DensityCheck(structure.map["density"])
       ELSE ""

\* a supernova check without the time_explosion rule
LuminosityOnly(supernova_section) ==
    IF supernova_section.map["luminosity_wavelength_start"].n
           > supernova_section.map["luminosity_wavelength_end"].n
    THEN ErrLuminosity
    ELSE ""
\* lines 263-285
SupernovaCheck(supernova_section) ==
    IF supernova_section.map["time_explosion"].n <= 0 THEN ErrTimeExplosion
    ELSE IF supernova_section.map["luminosity_wavelength_start"].n
             > supernova_section.map["luminosity_wavelength_end"].n
    THEN ErrLuminosity
    ELSE ""

\* lines 287-299
PlasmaCheck(plasma_section) ==
    IF plasma_section.map["initial_t_inner"].n < -1 THEN ErrTInner
    ELSE IF plasma_section.map["initial_t_rad"].n < -1 THEN ErrTRad
    ELSE ""

\* a spectrum check that refuses equal limits too
StrictSpectrum(spectrum_section, enable_full_relativity) ==
    IF spectrum_section.map["start"].n >= spectrum_section.map["stop"].n
    THEN ErrSpectrum
    ELSE IF enable_full_relativity = Bool(TRUE)
            /\ spectrum_section.map["method"] = Str("integrated")
    THEN ErrIntegrated
    ELSE ""
\* lines 308-337
validate_spectrum_section(spectrum_section, enable_full_relativity) ==
    IF spectrum_section.map["start"].n > spectrum_section.map["stop"].n
    THEN ErrSpectrum
    ELSE IF enable_full_relativity = Bool(TRUE)
            /\ spectrum_section.map["method"] = Str("integrated")
    THEN ErrIntegrated
    ELSE ""

\* config_validator.validate_dict: the document, type-coerced, or a schema
\* error.  The documents of the model are written in their coerced form
\* (every dimensioned field a Quantity); whether the schema accepts one is
\* the validator's answer, `accept`, which exists whether or not the
\* validator is asked.
validate_dict(config_dict, accept) ==
    IF accept THEN [err |-> "", val |-> config_dict]
    ELSE [err |-> ErrSchema, val |-> config_dict]

\* section checks that do not look for a csvy_model first
ModelChecksAlways(d) ==
    LET m == IF Has(d, "model") THEN validate_model_section(d.map["model"]) ELSE ""
        s == SupernovaCheck(d.map["supernova"])
    IN IF m # "" THEN m
       ELSE IF s # "" THEN s
       ELSE PlasmaCheck(d.map["plasma"])
\* lines 258-299: the sections checked when the document has a model and no
\* csvy_model
ModelChecks(d) ==
    IF Has(d, "csvy_model") THEN ""
    ELSE IF Has(d, "model")
    THEN LET m == validate_model_section(d.map["model"])
             s == SupernovaCheck(d.map["supernova"])
         IN IF m # "" THEN m
            ELSE IF s # "" THEN s
            ELSE PlasmaCheck(d.map["plasma"])
    ELSE ""

\* a validation step that ignores the validate flag
AlwaysValidated(config_dict, validate, accept) == validate_dict(config_dict, accept)
\* lines 248-251
Validated(config_dict, validate, accept) ==
    IF validate THEN validate_dict(config_dict, accept)
    ELSE [err |-> "", val |-> config_dict]

\* Configuration.from_config_dict, lines 232-306: the heap with the new
\* Configuration and the reference to it, or the exception raised
from_config_dict(h, config_dict, validate, accept, config_dirname, csvy) ==
    LET v == Validated(config_dict, validate, accept)
        d1 == Put(v.val, "config_dirname", Str(config_dirname))
        mc == validate_montecarlo_section(d1.map["montecarlo"])
        d2 == Put(d1, "montecarlo", mc.val)
        m == ModelChecks(d2)
        sp == validate_spectrum_section(d2.map["spectrum"],
                  mc.val.map["enable_full_relativity"])
        a == AllocRaw(0, d2)
    IN IF v.err # "" THEN [h |-> h, err |-> v.err, val |-> None]
       ELSE IF mc.err # "" THEN [h |-> h, err |-> mc.err, val |-> None]
       ELSE IF m # "" THEN [h |-> h, err |-> m, val |-> None]
       ELSE IF sp # "" THEN [h |-> h, err |-> sp, val |-> None]
       ELSE ns_init(a.objs @@ h, a.val, csvy)

-----------------------------------------------------------------------------
(* The input documents of from_config_dict.  A document is described by    *)
(* the fields that vary; the documents explored deviate from the base      *)
(* document, which passes every rule, in at most MaxDev of them, and give  *)
(* the model each of the four ways.                                        *)

\* a field the document does not have
Absent == [kind |-> "absent", n |-> 0, s |-> ""]
Opt(k, v) == IF v = Absent THEN EmptyMap ELSE k :> v

\* montecarlo.convergence_strategy: its type, its own damping_constant and
\* threshold, its t_inner section (ti: whether it has one), and its t_rad, w
\* and v_inner_boundary sections (rest: "absent", "empty" or "full")
BaseConvergence ==
    [type |-> Str("damped"), dc |-> Num(1), th |-> Num(5),
     ti |-> TRUE, ti_dc |-> Absent, ti_th |-> Num(2), ti_type |-> Absent,
     rest |-> "absent"]
ConvergenceVariants ==
    {[BaseConvergence EXCEPT !.dc = a, !.th = b, !.ti_dc = c, !.ti_th = d] :
        a \in {Absent, Num(1)}, b \in {Absent, Num(5)},
        c \in {Absent, None, Num(3)}, d \in {Absent, Num(2)}}
    \cup {[BaseConvergence EXCEPT !.ti = FALSE, !.dc = a, !.th = b] :
             a \in {Absent, Num(1)}, b \in {Absent, Num(5)}}
    \cup {[BaseConvergence EXCEPT !.ti_type = x] : x \in {None, Str("damped")}}
    \cup {[BaseConvergence EXCEPT !.ti_th = None]}
    \cup {[BaseConvergence EXCEPT !.rest = x] : x \in {"empty", "full"}}
    \cup {[BaseConvergence EXCEPT !.type = x] : x \in {Str("custom"), Str("ab")}}

\* model.structure.density (type Absent: the structure has none)
BaseDensity ==
    [type |-> Str("exponential"), rho_0 |-> 1, v_0 |-> 1, value |-> 1, time_0 |-> Absent]
DensityVariants ==
    {[BaseDensity EXCEPT !.type = t] :
        t \in {Absent, Str("exponential"), Str("power_law"), Str("uniform"), Str("ab")}}
    \cup {[BaseDensity EXCEPT !.type = t, !.rho_0 = x] :
             t \in {Str("exponential"), Str("power_law")}, x \in {-1, 0}}
    \cup {[BaseDensity EXCEPT !.type = t, !.v_0 = x] :
             t \in {Str("exponential"), Str("power_law")}, x \in {-1, 0}}
    \cup {[BaseDensity EXCEPT !.type = Str("uniform"), !.value = x] : x \in {-1, 0}}
    \cup {[BaseDensity EXCEPT !.type = t, !.time_0 = Qty(x, "day")] :
             t \in {Str("exponential"), Str("power_law"), Str("uniform")},
             x \in {-1, 0, 1}}

BaseFields ==
    [mode |-> "inline",
     conv |-> BaseConvergence,
     efr |-> FALSE,
     \* supernova, plasma, spectrum
     te |-> 13, lws |-> 500, pti |-> 10000, ptr |-> 10000,
     start |-> 500, method |-> Str("virtual"),
     \* model.structure
     stype |-> Str("specific"), v_lo |-> 5,
     density |-> [BaseDensity EXCEPT !.type = Absent]]

Modes == {"inline", "csvy", "both", "none"}

Deviations(p) ==
    {[p EXCEPT !.conv = x] : x \in ConvergenceVariants}
    \cup {[p EXCEPT !.efr = x] : x \in {TRUE}}
    \cup {[p EXCEPT !.te = x] : x \in {-5, 0}}
    \cup {[p EXCEPT !.lws = x] : x \in {1000, 2000}}
    \cup {[p EXCEPT !.pti = x] : x \in {-2, -1}}
    \cup {[p EXCEPT !.ptr = x] : x \in {-2, -1}}
    \cup {[p EXCEPT !.start = x] : x \in {1000, 2000}}
    \cup {[p EXCEPT !.method = x] : x \in {Str("integrated")}}
    \cup {[p EXCEPT !.stype = x] : x \in {Str("file")}}
    \cup {[p EXCEPT !.v_lo = x] : x \in {10, 20}}
    \cup {[p EXCEPT !.density = x] : x \in DensityVariants}
    \cup {[p EXCEPT !.stype = Str("file"), !.v_lo = x] : x \in {10, 20}}
    \cup {[p EXCEPT !.efr = TRUE, !.method = Str("integrated")]}

RECURSIVE FieldsWithin(_)
FieldsWithin(k) ==
    IF k = 0 THEN {BaseFields}
    ELSE FieldsWithin(k - 1) \cup UNION {Deviations(p) : p \in FieldsWithin(k - 1)}

DocFields == {[p EXCEPT !.mode = m] : p \in FieldsWithin(MaxDev), m \in Modes}

FullSection == Dict([damping_constant |-> Num(4), threshold |-> Num(6), type |-> Str("damped")])
VarSection(k, x) ==
    IF x = "absent" THEN EmptyMap
    ELSE IF x = "empty" THEN k :> Dict(EmptyMap)
    ELSE k :> FullSection

ConvergenceOf(c) ==
    Dict([type |-> c.type]
         @@ Opt("damping_constant", c.dc) @@ Opt("threshold", c.th)
         @@ (IF c.ti
             THEN "t_inner" :> Dict(Opt("damping_constant", c.ti_dc)
                                    @@ Opt("threshold", c.ti_th)
                                    @@ Opt("type", c.ti_type))
             ELSE EmptyMap)
         @@ VarSection("t_rad", c.rest) @@ VarSection("w", c.rest)
         @@ VarSection("v_inner_boundary", c.rest))

DensityOf(d) ==
    Dict([type |-> d.type, rho_0 |-> Qty(d.rho_0, "g/cm^3"), v_0 |-> Qty(d.v_0, "km/s"),
          value |-> Qty(d.value, "g/cm^3")]
         @@ Opt("time_0", d.time_0))

StructureOf(p) ==
    Dict([type |-> p.stype,
          velocity |-> Dict([start |-> Qty(p.v_lo, "km/s"), stop |-> Qty(10, "km/s")]),
          v_inner_boundary |-> Qty(p.v_lo, "km/s"),
          v_outer_boundary |-> Qty(10, "km/s")]
         @@ (IF p.density.type = Absent THEN EmptyMap
             ELSE "density" :> DensityOf(p.density)))

DocOf(p) ==
    Dict([montecarlo |-> Dict([convergence_strategy |-> ConvergenceOf(p.conv),
                               enable_full_relativity |-> Bool(p.efr)]),
          supernova |-> Dict([time_explosion |-> Qty(p.te, "day"),
                              luminosity_wavelength_start |-> Qty(p.lws, "angstrom"),
                              luminosity_wavelength_end |-> Qty(1000, "angstrom")]),
          plasma |-> Dict([initial_t_inner |-> Qty(p.pti, "K"),
                           initial_t_rad |-> Qty(p.ptr, "K")]),
          spectrum |-> Dict([start |-> Qty(p.start, "angstrom"),
                             stop |-> Qty(1000, "angstrom"),
                             method |-> p.method])]
         @@ (IF p.mode \in {"inline", "both"}
             THEN "model" :> Dict([structure |-> StructureOf(p)]) ELSE EmptyMap)
         @@ (IF p.mode \in {"csvy", "both"}
             THEN "csvy_model" :> Str("m.csvy") ELSE EmptyMap))

\* what the CSVY file of a csvy_model reference may hold
CsvyDocs ==
    {CsvyUnreadable,
     Dict(EmptyMap),
     Dict([v_inner_boundary |-> Qty(5, "km/s"), name |-> Str("ab")]),
     Dict([v_inner_boundary |-> Qty(20, "km/s"), v_outer_boundary |-> Qty(10, "km/s")])}

\* the file is read only for a document with a csvy_model reference
CsvyFor(doc) == IF Has(doc, "csvy_model") THEN CsvyDocs ELSE {Dict(EmptyMap)}

-----------------------------------------------------------------------------
(* The calls.                                                              *)

NoCall ==
    [op |-> "none", on |-> "none", fields |-> BaseFields, validate |-> FALSE,
     accept |-> FALSE, csvy |-> Dict(EmptyMap), path |-> <<>>, value |-> None,
     err |-> "", ret |-> None]

Init ==
    /\ heap = EmptyMap
    /\ root = None
    /\ copy = None
    /\ call = NoCall
    /\ nops = 0

\* Configuration.from_config_dict(DocOf(p), validate, config_dirname="")
Build(p, validate, accept, csvy) ==
    /\ LET r == from_config_dict(heap, DocOf(p), validate, accept, "", csvy)
       IN /\ heap' = r.h
          /\ root' = r.val
          /\ call' = [NoCall EXCEPT !.op = "from_config_dict", !.fields = p,
                                    !.validate = validate, !.accept = accept,
                                    !.csvy = csvy, !.err = r.err, !.ret = r.val]
    /\ UNCHANGED <<copy, nops>>

\* nothing is constructed yet
Fresh == root = None /\ call.op = "none"

Next ==
    /\ Fresh
    /\ \E validate \in BOOLEAN, p \in DocFields :
          \E accept \in BOOLEAN, csvy \in CsvyFor(DocOf(p)) :
              Build(p, validate, accept, csvy)

Spec == Init /\ [][Next]_vars

-----------------------------------------------------------------------------
(* The calls on a namespace: it is constructed from a dict or built from a *)
(* document, and then read, written and copied.                            *)

\* what ConfigurationNameSpace(...) is called with: a dict with quantities,
\* lists (of scalars, with a dict, with a namespace) and nested dicts, or,
\* by mistake, a number
TreeA ==
    Dict([d |-> Qty(3, "cm"),
          n |-> Num(7),
          lst |-> List(<<Qty(1, "cm"), Str("ab"), Dict([x |-> Num(1)])>>),
          nsl |-> List(<<NS([x |-> Qty(1, "cm")])>>),
          sec |-> Dict([t |-> Qty(3, "s"),
                        items |-> Qty(4, "cm"),
                        lst |-> List(<<Num(1), Num(2), Num(3)>>),
                        sub |-> Dict([z |-> Num(1)])])])
NsLiterals == {TreeA, Num(1)}

\* the documents a configuration is built from, without validation
NsDocFields == {BaseFields, [BaseFields EXCEPT !.mode = "csvy"]}

\* the values written
SetValues == {Qty(5, "cm"), Qty(20, "mm"), Qty(86400, "s"), Num(9), Dict([x |-> Num(1)])}
\* the keys written by item or attribute
SetKeys == {"d", "n", "sec", "new"}
\* the paths written
SetPaths ==
    {<<"d">>, <<"lst", "item0">>, <<"lst", "item3">>, <<"sec", "t">>,
     <<"sec", "lst", "item1">>, <<"sec", "sub">>, <<"sec", "items">>,
     <<"nsl", "item0", "x">>, <<"supernova", "time_explosion">>}
\* the paths read
GetPaths ==
    {<<"d">>, <<"zz">>, <<"item0">>, <<"d", "x">>, <<"n", "item0">>,
     <<"lst", "item0">>, <<"lst", "item2">>, <<"lst", "item3">>, <<"lst", "item2", "x">>,
     <<"nsl", "item0">>, <<"nsl", "item0", "x">>,
     <<"sec", "t">>, <<"sec", "items">>, <<"sec", "item0">>, <<"sec", "sub", "z">>,
     <<"sec", "lst", "item2">>, <<"sec", "lst", "item3">>,
     <<"supernova", "time_explosion">>, <<"model", "structure", "velocity", "start">>}

\* the namespace a call is made on
Node(on) == IF on = "root" THEN root ELSE copy
CanCall(on) == Node(on) # None /\ nops < MaxOps

\* ConfigurationNameSpace(value)
Construct(value) ==
    /\ LET a == AllocRaw(0, value)
           r == ns_init(a.objs @@ heap, a.val, call.csvy)
       IN /\ heap' = r.h
          /\ root' = r.val
          /\ call' = [call EXCEPT !.op = "construct", !.value = value,
                                  !.err = r.err, !.ret = r.val]
    /\ UNCHANGED <<copy, nops>>

\* node[key] = value, or node.key = value
SetItem(on, key, value) ==
    /\ CanCall(on)
    /\ LET a == AllocRaw(nops + 1, value)
           r == setitem(a.objs @@ heap, Node(on).id, key, a.val, call.csvy)
       IN /\ heap' = r.h
          /\ call' = [call EXCEPT !.op = "setitem", !.on = on, !.path = <<key>>,
                                  !.value = value, !.err = r.err, !.ret = None]
    /\ nops' = nops + 1
    /\ UNCHANGED <<root, copy>>

\* node.set_config_item(".".join(path), value)
SetConfigItem(on, path, value) ==
    /\ CanCall(on)
    /\ LET a == AllocRaw(nops + 1, value)
           r == set_config_item(a.objs @@ heap, Node(on).id, path, a.val, call.csvy)
       IN /\ heap' = r.h
          /\ call' = [call EXCEPT !.op = "set_config_item", !.on = on, !.path = path,
                                  !.value = value, !.err = r.err, !.ret = None]
    /\ nops' = nops + 1
    /\ UNCHANGED <<root, copy>>

\* node.get_config_item(".".join(path))
GetConfigItem(on, path) ==
    /\ CanCall(on)
    /\ LET r == get_config_item(heap, Node(on).id, path)
       IN call' = [call EXCEPT !.op = "get_config_item", !.on = on, !.path = path,
                               !.value = None, !.err = r.err, !.ret = r.val]
    /\ nops' = nops + 1
    /\ UNCHANGED <<heap, root, copy>>

\* copy = root.deepcopy()
DeepCopy ==
    /\ CanCall("root")
    /\ copy = None
    /\ LET r == deepcopy(heap, root.id, nops + 1, call.csvy)
       IN /\ heap' = r.h
          /\ copy' = r.val
          /\ call' = [call EXCEPT !.op = "deepcopy", !.on = "root", !.path = <<>>,
                                  !.value = None, !.err = r.err, !.ret = r.val]
    /\ nops' = nops + 1
    /\ UNCHANGED root

NextNs ==
    \/ Fresh /\ \E value \in NsLiterals : Construct(value)
    \/ Fresh /\ \E p \in NsDocFields : \E csvy \in CsvyFor(DocOf(p)) :
                   Build(p, FALSE, TRUE, csvy)
    \/ \E on \in {"root", "copy"}, key \in SetKeys, value \in SetValues :
          SetItem(on, key, value)
    \/ \E on \in {"root", "copy"}, path \in SetPaths, value \in SetValues :
          SetConfigItem(on, path, value)
    \/ \E on \in {"root", "copy"}, path \in GetPaths : GetConfigItem(on, path)
    \/ DeepCopy

SpecNs == Init /\ [][NextNs]_vars

-----------------------------------------------------------------------------
(* Properties of Configuration.from_config_dict.                           *)

Built == call.op = "from_config_dict"
Succeeded == Built /\ call.err = ""
\* the document of the last build
RawDoc == DocOf(call.fields)
\* whether the schema lets the document through
SchemaPasses == call.validate => call.accept
FinishedTree == TreeOf(heap, root)

\* the sections other than model and csvy_model obey their rules
OtherSectionsValid ==
    /\ SchemaPasses
    /\ call.fields.conv.type = Str("damped")
    /\ SupernovaCheck(RawDoc.map["supernova"]) = ""
    /\ PlasmaCheck(RawDoc.map["plasma"]) = ""
    /\ validate_spectrum_section(RawDoc.map["spectrum"], Bool(call.fields.efr)) = ""

\* C1: a build from a document with both a model and a csvy_model key
\* returns no configuration, and raises the mutual-exclusion error when the
\* other sections are valid, whatever the model section and the CSVY file hold
C1_BothKeysRejected ==
    (Built /\ call.fields.mode = "both") =>
        /\ root = None
        /\ call.err # ""
        /\ OtherSectionsValid => call.err = ErrBoth
\* a document with both keys, an invalid model section and an unreadable CSVY
\* file was rejected with the mutual-exclusion error
C1_Witness ==
    /\ Built /\ call.fields.mode = "both" /\ OtherSectionsValid
    /\ call.fields.v_lo = 20
    /\ call.csvy = CsvyUnreadable
    /\ call.err = ErrBoth

\* the statement of C2 as the specification makes it: a finished tree holds
\* exactly one of model and csvy_model
C2_ExactlyOne ==
    Succeeded => (hasattr(heap, root.id, "model") # hasattr(heap, root.id, "csvy_model"))
\* C2: a finished tree holds csvy_model exactly when the document did, and
\* model exactly when the document held model or csvy_model; so a tree built
\* from a csvy_model reference holds both keys, one built from a document
\* with neither holds neither, and no tree holds csvy_model without model
C2_ModelKeysOfTree ==
    Succeeded =>
        /\ hasattr(heap, root.id, "csvy_model") <=> Has(RawDoc, "csvy_model")
        /\ hasattr(heap, root.id, "model")
               <=> (Has(RawDoc, "model") \/ Has(RawDoc, "csvy_model"))
        /\ ~(Has(RawDoc, "model") /\ Has(RawDoc, "csvy_model"))
\* a configuration built from a csvy_model reference holds both keys
C2_Witness ==
    /\ Succeeded /\ call.fields.mode = "csvy"
    /\ hasattr(heap, root.id, "model") /\ hasattr(heap, root.id, "csvy_model")

\* the convergence_strategy of the document and of the finished tree
RawConvergence == ConvergenceOf(call.fields.conv)
FinishedConvergence == FinishedTree.map["montecarlo"].map["convergence_strategy"]
ConvergenceVariables == {convergence_variables[i] : i \in 1..Len(convergence_variables)}
ConvergenceParameters == {convergence_parameters[i] : i \in 1..Len(convergence_parameters)}
\* the variable's section of the document has the parameter as a key
SubHasKey(var, param) == Has(RawConvergence, var) /\ Has(RawConvergence.map[var], param)
\* ... and its value is not null
SubDefines(var, param) ==
    SubHasKey(var, param) /\ RawConvergence.map[var].map[param] # None

\* the statement of C3 as the specification makes it: every value a
\* variable's section gives explicitly, null included, is kept
C3_EveryExplicitValueKept ==
    Succeeded =>
        \A var \in ConvergenceVariables, param \in ConvergenceParameters :
            SubHasKey(var, param) =>
                FinishedConvergence.map[var].map[param] = RawConvergence.map[var].map[param]
\* C3: after normalization a variable's section holds its own value for a
\* parameter it gave with a non-null value, and the parent section's value
\* for a parameter it left out, or gave as null, when the parent has one
C3_DefaultInheritance ==
    Succeeded =>
        \A var \in ConvergenceVariables, param \in ConvergenceParameters :
            /\ SubDefines(var, param) =>
                   FinishedConvergence.map[var].map[param]
                       = RawConvergence.map[var].map[param]
            /\ (~SubDefines(var, param) /\ Has(RawConvergence, param)) =>
                   /\ Has(FinishedConvergence.map[var], param)
                   /\ FinishedConvergence.map[var].map[param] = RawConvergence.map[param]
\* t_inner kept its own threshold and took the parent's damping_constant,
\* which it had given as null
C3_Witness ==
    /\ Succeeded
    /\ call.fields.conv.ti_th = Num(2) /\ call.fields.conv.th = Num(5)
    /\ call.fields.conv.ti_dc = None /\ call.fields.conv.dc = Num(1)
    /\ FinishedConvergence.map["t_inner"].map["threshold"] = Num(2)
    /\ FinishedConvergence.map["t_inner"].map["damping_constant"] = Num(1)

\* the statement of C4 as the specification makes it: every sub-section of a
\* finished convergence_strategy has all three parameters
C4_FullyPopulated ==
    Succeeded =>
        \A var \in ConvergenceVariables, param \in ConvergenceParameters :
            /\ Has(FinishedConvergence, var)
            /\ Has(FinishedConvergence.map[var], param)
\* C4: a finished convergence_strategy has type "damped" and the four
\* sub-sections, each with a type, and with a damping_constant (threshold)
\* exactly when its own section or the parent section of the document has
\* that key; a type other than "damped" yields no configuration
C4_NormalizedConvergence ==
    /\ Succeeded =>
           /\ FinishedConvergence.map["type"] = Str("damped")
           /\ \A var \in ConvergenceVariables :
                 /\ Has(FinishedConvergence, var)
                 /\ Has(FinishedConvergence.map[var], "type")
                 /\ \A param \in {"damping_constant", "threshold"} :
                       Has(FinishedConvergence.map[var], param)
                           <=> (SubHasKey(var, param) \/ Has(RawConvergence, param))
    /\ (Built /\ call.fields.conv.type # Str("damped")) => (root = None /\ call.err # "")
\* a configuration was built whose w section has a type and a threshold but,
\* the document giving none anywhere, no damping_constant
C4_Witness ==
    /\ Succeeded
    /\ call.fields.conv.dc = Absent /\ call.fields.conv.rest = "absent"
    /\ call.fields.conv.th = Num(5)
    /\ FinishedConvergence.map["w"].map["type"] = Str("damped")
    /\ FinishedConvergence.map["w"].map["threshold"] = Num(5)
    /\ ~Has(FinishedConvergence.map["w"], "damping_constant")

\* the exceptions of the section rules
SectionErrors ==
    {ErrCustom, ErrConvType, ErrStopVelocity, ErrOuterBoundary, ErrRho0, ErrV0,
     ErrTime0, ErrDensityValue, ErrTimeExplosion, ErrLuminosity, ErrTInner, ErrTRad,
     ErrSpectrum, ErrIntegrated}
\* the document has an inline model and differs from the base document in
\* this one field only
OnlyConv(x) == call.fields = [BaseFields EXCEPT !.conv = [BaseConvergence EXCEPT !.type = x]]
OnlyDensity(x) == call.fields = [BaseFields EXCEPT !.density = x]

BeforeSupernovaValid ==
    /\ SchemaPasses
    /\ call.fields.conv.type = Str("damped")
    /\ Has(RawDoc, "model") => validate_model_section(RawDoc.map["model"]) = ""

\* the statement of C6 as the specification makes it: a time_explosion that
\* is not positive is refused whatever way the model is given
C6_AlwaysRefused ==
    (Built /\ call.fields.te <= 0) => (root = None /\ call.err # "")
\* C6: a time_explosion that is not positive raises the supernova error when
\* the document has an inline model and no csvy_model (the schema and the
\* sections checked before it passing); for a document with a csvy_model
\* reference or with no model the rule is not applied, and the build goes
\* through when the rest is in order
C6_TimeExplosionRule ==
    (Built /\ call.fields.te <= 0) =>
        /\ (call.fields.mode = "inline" /\ BeforeSupernovaValid) =>
               (root = None /\ call.err = ErrTimeExplosion)
        /\ call.fields.mode # "inline" => call.err # ErrTimeExplosion
        /\ (/\ call.fields.mode \in {"csvy", "none"}
            /\ BeforeSupernovaValid
            /\ validate_spectrum_section(RawDoc.map["spectrum"], Bool(call.fields.efr)) = ""
            /\ call.csvy # CsvyUnreadable) => call.err = ""
\* a document with an inline model and time_explosion = -5 day was refused,
\* though validation was off
C6_Witness ==
    /\ Built /\ call.fields = [BaseFields EXCEPT !.te = -5]
    /\ ~call.validate
    /\ call.err = ErrTimeExplosion

\* The rules of the sections, read off the fields of the document (every
\* quantity in the unit its field is declared in; the upper limits of the
\* base document are velocity.stop = v_outer_boundary = 10 km/s,
\* luminosity_wavelength_end = spectrum.stop = 1000 angstrom).
StructureRule(p) ==
    p.stype \in {Str("specific"), Str("file")} => p.v_lo <= 10
Time0Rule(d) == d.time_0 = Absent \/ d.time_0.n > 0
DensityRule(p) ==
    LET d == p.density
    IN /\ d.type \in {Str("exponential"), Str("power_law")} =>
              (d.rho_0 > 0 /\ d.v_0 > 0 /\ Time0Rule(d))
       /\ d.type = Str("uniform") => (d.value > 0 /\ Time0Rule(d))
SupernovaRule(p) == p.te > 0 /\ p.lws <= 1000
PlasmaRule(p) == p.pti >= -1 /\ p.ptr >= -1
SpectrumRule(p) == p.start <= 1000 /\ ~(p.efr /\ p.method = Str("integrated"))
RulesHold(p) ==
    /\ p.mode # "both"
    /\ StructureRule(p) /\ DensityRule(p)
    /\ SupernovaRule(p) /\ PlasmaRule(p) /\ SpectrumRule(p)

\* C12: a document with an inline model and a damped convergence strategy,
\* which the schema lets through, is built exactly when every rule holds:
\* the ordering rules accept equal values and refuse a reversed pair, the
\* positivity rules refuse zero and negative values, initial_t_inner and
\* initial_t_rad are accepted from -1 on; and the spectrum rule is applied
\* to a document without a model section as well
C12_RulesAndBoundaries ==
    (Built /\ SchemaPasses /\ call.fields.conv.type = Str("damped")) =>
        /\ call.fields.mode \in {"inline", "both"} =>
               (call.err = "" <=> RulesHold(call.fields))
        /\ call.fields.mode = "inline" =>
               /\ ~StructureRule(call.fields) =>
                      call.err \in {ErrStopVelocity, ErrOuterBoundary}
               /\ (StructureRule(call.fields) /\ ~DensityRule(call.fields)) =>
                      call.err \in {ErrRho0, ErrV0, ErrTime0, ErrDensityValue}
        /\ call.fields.mode \in {"csvy", "none"} =>
               /\ call.fields.start > 1000 => call.err = ErrSpectrum
               /\ call.fields.start <= 1000 => call.err # ErrSpectrum
\* a document with an inline model whose spectrum.start equals spectrum.stop
\* was built
C12_Witness ==
    /\ Succeeded /\ SchemaPasses
    /\ call.fields = [BaseFields EXCEPT !.start = 1000]

-----------------------------------------------------------------------------
(* Properties of ConfigurationNameSpace.  Paths are read against the tree  *)
(* of the namespace: a name selects a key of a namespace, item<N> the      *)
(* element N, counted from zero, of a list.  The prefix "item" is reserved *)
(* for indices: a name does not begin with it.                             *)

IsIndex(seg) == \E i \in 1..Len(ItemNames) : ItemNames[i] = seg
IndexOf(seg) == (CHOOSE i \in 1..Len(ItemNames) : ItemNames[i] = seg) - 1
IsName(seg) == seg \notin {ItemNames[i] : i \in 1..Len(ItemNames)} \cup {"items"}
AllNames(path) == \A i \in 1..Len(path) : IsName(path[i])
Front(path) == SubSeq(path, 1, Len(path) - 1)
Last(path) == path[Len(path)]

\* the value a path leads to in a tree, names and indices followed in order
RECURSIVE Follow(_, _)
Follow(t, path) ==
    IF path = <<>> THEN [ok |-> TRUE, val |-> t]
    ELSE IF IsIndex(Head(path))
    THEN IF t.kind = "list" /\ IndexOf(Head(path)) < Len(t.elems)
         THEN Follow(t.elems[IndexOf(Head(path)) + 1], Tail(path))
         ELSE [ok |-> FALSE, val |-> None]
    ELSE IF t.kind = "ns" /\ Head(path) \in DOMAIN t.map
    THEN Follow(t.map[Head(path)], Tail(path))
    ELSE [ok |-> FALSE, val |-> None]

\* the trees of the two namespaces
RootTree == TreeOf(heap, root)
CopyTree == TreeOf(heap, copy)
Writes == {"setitem", "set_config_item"}

\* a path as the writes take it: a key; or names and then, maybe, one index
WritePath(op, path) ==
    \/ op = "setitem"
    \/ AllNames(path)
    \/ Len(path) >= 2 /\ AllNames(Front(path)) /\ IsIndex(Last(path))
\* where a write stores: the key of the namespace or the element of the list
Target(t, op, path) ==
    IF op = "setitem"
    THEN IF path[1] \in DOMAIN t.map
         THEN [ok |-> TRUE, val |-> t.map[path[1]]] ELSE [ok |-> FALSE, val |-> None]
    ELSE Follow(t, path)

\* one call of C7: a write of a quantity of another dimension to a place
\* that holds a quantity raises the conversion error, and a write that
\* raises it changes neither tree
C7_Step ==
    call'.op \in Writes =>
        LET cur == Target(TreeOf(heap, Node(call'.on)), call'.op, call'.path)
            mismatch == /\ WritePath(call'.op, call'.path)
                        /\ cur.ok /\ cur.val.kind = "qty"
                        /\ call'.value.kind = "qty"
                        /\ Dimension(call'.value.s) # Dimension(cur.val.s)
        IN /\ mismatch => call'.err = "UnitConversionError"
           /\ call'.err = "UnitConversionError" =>
                  /\ TreeOf(heap', root') = TreeOf(heap, root)
                  /\ TreeOf(heap', copy') = TreeOf(heap, copy)
\* C7: writing, by item, attribute or path (named or item<N>), a value whose
\* dimension does not convert to the unit stored at the target raises the
\* unit conversion error and leaves the stored value and the rest of the
\* tree as they were
C7_UnitMismatchAtomic == [][C7_Step]_vars
\* a path write of seconds to the centimetre element of a list was refused
C7_Witness ==
    /\ call.op = "set_config_item" /\ call.path = <<"lst", "item0">>
    /\ call.value = Qty(86400, "s")
    /\ call.err = "UnitConversionError"
    /\ RootTree.map["lst"].elems[1] = Qty(1, "cm")

\* the statement of C8 as the specification makes it, in its first half:
\* deepcopy returns a tree equal to the original
C8_CopyIdentical ==
    call.op = "deepcopy" => (call.err = "" /\ copy # None /\ CopyTree = RootTree)

RECURSIVE HasPlainDict(_)
HasPlainDict(t) ==
    \/ t.kind = "dict"
    \/ t.kind = "list" /\ \E i \in 1..Len(t.elems) : HasPlainDict(t.elems[i])
    \/ t.kind = "ns" /\ \E k \in DOMAIN t.map : HasPlainDict(t.map[k])

\* the statement of C9 as the specification makes it: no plain mapping
\* anywhere in a tree
C9_NoPlainMapping == ~HasPlainDict(RootTree) /\ ~HasPlainDict(CopyTree)
\* C9: every mapping stored directly under a key of a namespace, at any
\* depth, is a namespace; (a mapping that is an element of a list is stored
\* as it was given)
C9_ValuesOfKeysWrapped ==
    \A id \in DOMAIN heap :
        heap[id].kind = "ns" =>
            \A k \in DOMAIN heap[id].map : ~IsObj(heap, heap[id].map[k], "dict")
\* a dict written by path under a nested key is held as a namespace, while
\* the dict in the list given at construction is still a plain dict
C9_Witness ==
    /\ call.op = "set_config_item" /\ call.path = <<"sec", "sub">>
    /\ call.value = Dict([x |-> Num(1)]) /\ call.err = ""
    /\ RootTree.map["sec"].map["sub"] = NS([x |-> Num(1)])
    /\ RootTree.map["lst"].elems[3] = Dict([x |-> Num(1)])

Reads == call.op = "get_config_item"
ReadTree == TreeOf(heap, Node(call.on))
Returned == TreeOf(heap, call.ret)

\* the statement of C10 as the specification makes it: the segments are
\* followed in order, an index at any place, on into an element
C10_EveryPathShape ==
    (/\ Reads
     /\ \A i \in 1..Len(call.path) : IsName(call.path[i]) \/ IsIndex(call.path[i])
     /\ Follow(ReadTree, call.path).ok) =>
        (call.err = "" /\ Returned = Follow(ReadTree, call.path).val)
\* C10: get_config_item follows names through nested namespaces; item<N> is
\* an index only as the last segment of a path of two or more, into the
\* list under the key before it, with item<N> at or past the length raising
\* IndexError; a path that goes on after an index into a list raises
\* instead of entering the element; a single segment is a key
C10_PathResolution ==
    Reads =>
        LET path == call.path
            front == Follow(ReadTree, Front(path))
        IN /\ AllNames(path) =>
                  IF Follow(ReadTree, path).ok
                  THEN call.err = "" /\ Returned = Follow(ReadTree, path).val
                  ELSE call.err # ""
           /\ (Len(path) >= 2 /\ AllNames(Front(path)) /\ IsIndex(Last(path))
                  /\ front.ok /\ front.val.kind = "list") =>
                  IF IndexOf(Last(path)) < Len(front.val.elems)
                  THEN call.err = ""
                       /\ Returned = front.val.elems[IndexOf(Last(path)) + 1]
                  ELSE call.err = "IndexError"
           /\ (\E i \in 2..(Len(path) - 1) :
                  /\ IsIndex(path[i])
                  /\ AllNames(SubSeq(path, 1, i - 1))
                  /\ Follow(ReadTree, SubSeq(path, 1, i - 1)).ok
                  /\ Follow(ReadTree, SubSeq(path, 1, i - 1)).val.kind = "list") =>
                  call.err = "AttributeError: get_config_item"
           /\ Len(path) = 1 =>
                  IF path[1] \in DOMAIN ReadTree.map
                  THEN call.err = "" /\ Returned = ReadTree.map[path[1]]
                  ELSE call.err = "KeyError"
\* item2 of the three-element list sec.lst was read
C10_Witness ==
    /\ Reads /\ call.path = <<"sec", "lst", "item2">>
    /\ Len(ReadTree.map["sec"].map["lst"].elems) = 3
    /\ call.err = "" /\ call.ret = Num(3)

\* one call of C11.  A write that succeeds at a place that holds a quantity
\* leaves there a quantity in the unit stored before, with the magnitude of
\* the value when the value is in that unit, and get_config_item on the
\* path of a set_config_item reads it; a get_config_item that follows a
\* successful set_config_item on the same path returns what is stored there
C11_Step ==
    /\ (call'.op \in Writes /\ call'.err = "" /\ WritePath(call'.op, call'.path)) =>
           LET cur == Target(TreeOf(heap, Node(call'.on)), call'.op, call'.path)
               new == Target(TreeOf(heap', Node(call'.on)), call'.op, call'.path)
               read == get_config_item(heap', Node(call'.on).id, call'.path)
           IN (cur.ok /\ cur.val.kind = "qty") =>
                  /\ new.ok /\ new.val.kind = "qty" /\ new.val.s = cur.val.s
                  /\ (call'.value.kind = "qty" /\ call'.value.s = cur.val.s) =>
                         new.val.n = call'.value.n
                  /\ call'.op = "set_config_item" =>
                         (read.err = "" /\ read.val = new.val)
    /\ (/\ call.op = "set_config_item" /\ call.err = ""
        /\ WritePath(call.op, call.path)
        /\ call'.op = "get_config_item"
        /\ call'.on = call.on /\ call'.path = call.path) =>
           /\ call'.err = ""
           /\ TreeOf(heap', call'.ret) = Follow(TreeOf(heap, Node(call.on)), call.path).val
\* C11: set_config_item of a value in the stored unit, to a named key or an
\* item<N> element that holds a quantity, then get_config_item on the same
\* path returns that magnitude in the stored unit; every successful write to
\* a place that holds a quantity keeps the unit stored there
C11_UnitPreserved == [][C11_Step]_vars
\* 5 cm was written by path to the list element that held 1 cm, and read
\* back
C11_Witness ==
    /\ Reads /\ call.on = "root" /\ call.path = <<"lst", "item0">> /\ nops = 2
    /\ call.err = "" /\ call.ret = Qty(5, "cm")

=============================================================================
